---- MODULE Spec2Model ----
(***************************************************************************)
(* Model of the smart-grid replay server (src/server/server.js).           *)
(*                                                                         *)
(* The server keeps three process-global variables (currentRowIndex,       *)
(* batteryDischargeCycles, lastBatteryAction) and a directory of uploaded  *)
(* spreadsheets.  Every request handler of the server is synchronous       *)
(* (XLSX.readFile / XLSX.writeFile block), so one handler is one step.     *)
(* The upload handler answers from the callback of file.mv; the move and   *)
(* its callback are taken as one step.                                     *)
(*                                                                         *)
(* The dashboard (src/client/src/App.jsx) drives the server: Start sends   *)
(* one request at once and one at every tick of an interval timer, and     *)
(* the continuation of each request runs when its response arrives.  The   *)
(* requests and responses in flight are the variable net.  What the        *)
(* dashboard only displays (currentData, alertMessages, summary, and the   *)
(* summary request that refreshes it) is not read by the driver and is     *)
(* left out.                                                               *)
(*                                                                         *)
(* Units.  Watts are integers.  A battery percentage is an integer number  *)
(* of hundredths of a percent (0.15 is 15, 28 is 2800, 100 is 10000).      *)
(* Energies, the backup time and the efficiency are exact fractions        *)
(* [num, den] built with the factors the code uses.                        *)
(***************************************************************************)
EXTENDS Integers, Sequences, FiniteSets, TLC

VARIABLES
  files,                  \* uploads directory: file name -> the file's sheet rows, or NoFile
  currentRowIndex,        \* server.js:17
  batteryDischargeCycles, \* server.js:18
  lastBatteryAction,      \* server.js:19
  res,                    \* the request handled last (route, filePath) and its response
  uploaded,               \* history: the file name and the rows of the last successful upload
  produced,               \* history: the rows /api/data/next returned since that upload
  calls,                  \* history: number of /api/data/next requests for the uploaded file since that upload
  strayed,                \* history: a /api/data/next request since that upload named another file
  exported,               \* history: every row produced since that upload has been downloaded since
  client,                 \* the dashboard's state, App.jsx:41-51
  net                     \* /api/data/next requests and their responses in flight

vars == <<files, currentRowIndex, batteryDischargeCycles, lastBatteryAction,
          res, uploaded, produced, calls, strayed, exported, client, net>>

----------------------------------------------------------------------------
(* Bounds *)

MaxLen == 2        \* longest uploaded dataset
MaxCalls == 4      \* /api/data/next requests followed per session
MaxWattSteps == 2  \* watt values are 0, 1000, ..., MaxWattSteps * 1000
MaxInFlight == 2   \* requests and responses of the dashboard in flight at a time

----------------------------------------------------------------------------
(* Values *)

BATTERY_CAPACITY_KWH == 10

NoFile == [exists |-> FALSE, rows |-> <<>>]
File(rows) == [exists |-> TRUE, rows |-> rows]
Undefined == "undefined"
Null == "null"
NaN == -1000000

Pct(n) == n * 100

FileNames == {"a.xlsx", "b.xlsx"}

\* a battery_percent cell: a number cell or a text cell
NumCell(h) == [type |-> "number", num |-> h, str |-> ""]
StrCell(s) == [type |-> "string", num |-> 0, str |-> s]

BatteryTexts == {"0.15", "0.5", "20", "50", "abc"}

BatteryCells ==
  {NumCell(h) : h \in {15, 50, Pct(20), Pct(28), Pct(50), Pct(100)}}
    \cup {StrCell(s) : s \in BatteryTexts}

GridStatuses ==
  {"normal", "power off", "voltage fluctuation", "power_off", "voltage_fluctuation"}

Watts == {1000 * k : k \in 0..MaxWattSteps}

RawRow(ts, day, solar, grid, demand, heavy, bp) ==
  [timestamp |-> ts,
   is_daytime |-> day,
   solar_input_watts |-> solar,
   grid_status |-> grid,
   household_power_demand_watts |-> demand,
   heavy_appliance_active |-> heavy,
   ambient_temperature_celsius |-> 25,
   weather_condition |-> "Sunny",
   battery_percent |-> bp]

RawFields ==
  {"timestamp", "is_daytime", "solar_input_watts", "grid_status",
   "household_power_demand_watts", "heavy_appliance_active",
   "ambient_temperature_celsius", "weather_condition", "battery_percent"}

DerivedFields ==
  {"power_source", "battery_action", "battery_efficiency", "solar_contribution",
   "grid_contribution", "battery_contribution", "total_consumption_kwh",
   "estimated_battery_backup_time", "alerts", "discharge_cycles"}

\* every raw row of the classifier's input domain, stamped ts
RowDomain(ts) ==
  {RawRow(ts, day, solar, grid, demand, heavy, bp) :
     day \in BOOLEAN, solar \in Watts, grid \in GridStatuses,
     demand \in Watts, heavy \in BOOLEAN, bp \in BatteryCells}

----------------------------------------------------------------------------
(* JavaScript conversions used by processRowData *)

\* parseFloat / ToNumber of a text cell
ParseFloat(s) ==
  CASE s = "0.15" -> 15
    [] s = "0.5" -> 50
    [] s = "20" -> Pct(20)
    [] s = "50" -> Pct(50)
    [] OTHER -> NaN

\* the number a cell stands for in a comparison or in arithmetic
ToNumber(cell) == IF cell.type = "string" THEN ParseFloat(cell.str) ELSE cell.num

\* a < b and a > b on numbers; false when an operand is NaN
Lt(a, b) == a # NaN /\ b # NaN /\ a < b
Gt(a, b) == a # NaN /\ b # NaN /\ a > b

\* the text of a number of hundredths: 15 is "0.15", 50 is "0.5", 2000 is "20"
NumberToString(h) ==
  LET ip == h \div 100
      fp == h % 100
  IN  IF h = NaN THEN "NaN"
      ELSE IF fp = 0 THEN ToString(ip)
      ELSE IF fp % 10 = 0 THEN ToString(ip) \o "." \o ToString(fp \div 10)
      ELSE IF fp < 10 THEN ToString(ip) \o ".0" \o ToString(fp)
      ELSE ToString(ip) \o "." \o ToString(fp)

\* string concatenation "..." + cell
CellToString(cell) == IF cell.type = "string" THEN cell.str ELSE NumberToString(cell.num)

\* Array.prototype.join(", ")
RECURSIVE Join(_)
Join(alerts) ==
  IF alerts = <<>> THEN ""
  ELSE IF Len(alerts) = 1 THEN alerts[1]
  ELSE alerts[1] \o ", " \o Join(Tail(alerts))

\* { ...a, ...b }
Spread(a, b) == [k \in DOMAIN a \cup DOMAIN b |-> IF k \in DOMAIN b THEN b[k] ELSE a[k]]

----------------------------------------------------------------------------
(* processRowData, server.js:37-236 *)

GridDegraded(grid_status) ==
  grid_status = "power off" \/ grid_status = "voltage fluctuation"

\* mutant: by day with a normal grid, solar equal to the demand does not count
\* as covering it
power_sourceStrict(rowData) ==
  LET grid_status == rowData.grid_status
      solar_input_watts == rowData.solar_input_watts
      household_power_demand_watts == rowData.household_power_demand_watts
  IN  IF rowData.is_daytime
      THEN IF grid_status = "normal"
           THEN IF solar_input_watts > household_power_demand_watts
                THEN "Solar" ELSE "Solar+Grid"
           ELSE IF GridDegraded(grid_status)
           THEN IF solar_input_watts >= household_power_demand_watts
                THEN "Solar" ELSE "Solar+Battery"
           ELSE Undefined
      ELSE IF grid_status = "normal" THEN "Grid"
           ELSE IF GridDegraded(grid_status) THEN "Battery"
           ELSE IF grid_status = "power off" THEN "Battery"
           ELSE Undefined

\* 1. power_source, server.js:55-113
power_source(rowData) ==
  LET grid_status == rowData.grid_status
      solar_input_watts == rowData.solar_input_watts
      household_power_demand_watts == rowData.household_power_demand_watts
  IN  IF rowData.is_daytime
      THEN IF grid_status = "normal"
           THEN IF solar_input_watts >= household_power_demand_watts
                THEN "Solar" ELSE "Solar+Grid"
           ELSE IF GridDegraded(grid_status)
           THEN IF solar_input_watts >= household_power_demand_watts
                THEN "Solar" ELSE "Solar+Battery"
           ELSE Undefined
      ELSE IF grid_status = "normal" THEN "Grid"
           ELSE IF GridDegraded(grid_status) THEN "Battery"
           ELSE IF grid_status = "power off" THEN "Battery"
           ELSE Undefined

\* mutant: at night the test for "power off" alone comes before the test for
\* either degraded status
sourceAlertsPowerOffFirst(rowData) ==
  LET grid_status == rowData.grid_status
      solar_input_watts == rowData.solar_input_watts
      household_power_demand_watts == rowData.household_power_demand_watts
      heavy_appliance_active == rowData.heavy_appliance_active
  IN  IF rowData.is_daytime
      THEN IF grid_status = "normal" THEN <<>>
           ELSE IF GridDegraded(grid_status)
           THEN (IF solar_input_watts >= household_power_demand_watts
                 THEN <<"Grid power unavailable. Using solar only.">>
                 ELSE <<"Powering from battery due to grid issue.">>)
                \o (IF heavy_appliance_active
                    THEN <<"Warning: Heavy appliances running on solar backup.">>
                    ELSE <<>>)
           ELSE <<>>
      ELSE IF grid_status = "normal" THEN <<>>
           ELSE IF grid_status = "power off"
           THEN <<"Grid power unavailable. Using battery backup.">>
                \o (IF heavy_appliance_active
                    THEN <<"Warning: High load on battery backup. Turn off heavy devices.">>
                    ELSE <<>>)
           ELSE IF GridDegraded(grid_status)
           THEN <<"Switched to battery.">>
                \o (IF heavy_appliance_active
                    THEN <<"Warning: Heavy appliances on battery backup. Consider turning off.">>
                    ELSE <<>>)
           ELSE <<>>

\* the alerts pushed while power_source is determined, server.js:64-113
sourceAlerts(rowData) ==
  LET grid_status == rowData.grid_status
      solar_input_watts == rowData.solar_input_watts
      household_power_demand_watts == rowData.household_power_demand_watts
      heavy_appliance_active == rowData.heavy_appliance_active
  IN  IF rowData.is_daytime
      THEN IF grid_status = "normal" THEN <<>>
           ELSE IF GridDegraded(grid_status)
           THEN (IF solar_input_watts >= household_power_demand_watts
                 THEN <<"Grid power unavailable. Using solar only.">>
                 ELSE <<"Powering from battery due to grid issue.">>)
                \o (IF heavy_appliance_active
                    THEN <<"Warning: Heavy appliances running on solar backup.">>
                    ELSE <<>>)
           ELSE <<>>
      ELSE IF grid_status = "normal" THEN <<>>
           ELSE IF GridDegraded(grid_status)
           THEN <<"Switched to battery.">>
                \o (IF heavy_appliance_active
                    THEN <<"Warning: Heavy appliances on battery backup. Consider turning off.">>
                    ELSE <<>>)
           ELSE IF grid_status = "power off"
           THEN <<"Grid power unavailable. Using battery backup.">>
                \o (IF heavy_appliance_active
                    THEN <<"Warning: High load on battery backup. Turn off heavy devices.">>
                    ELSE <<>>)
           ELSE <<>>

\* server.js:117-130: the local parsedBatteryPercent.  It is multiplied by 100
\* for a text cell below 1 only, and nothing reads it afterwards.
parsedBatteryPercent(cell) ==
  IF cell.type = "string"
  THEN IF Lt(ParseFloat(cell.str), Pct(1)) THEN ParseFloat(cell.str) * 100
       ELSE ParseFloat(cell.str)
  ELSE cell.num

\* the binding battery_percent after server.js:117-130.  battery_percent is a
\* const binding of the destructuring at server.js:39-49: the assignment at
\* server.js:123 throws a TypeError, which the surrounding try/catch swallows,
\* and the binding keeps the raw cell.
battery_percent(rowData) == rowData.battery_percent

\* server.js:132-135
batteryAlerts(rowData) ==
  IF Lt(ToNumber(battery_percent(rowData)), Pct(28))
  THEN <<"Battery Low: " \o CellToString(battery_percent(rowData)) \o "%">>
  ELSE <<>>

\* mutant: the battery is only discharged above the low-battery level
battery_actionGuarded(rowData, ps) ==
  LET bp == ToNumber(battery_percent(rowData))
  IN  IF (ps = "Battery" \/ ps = "Solar+Battery") /\ Gt(bp, Pct(28)) THEN "Discharging"
      ELSE IF /\ rowData.is_daytime
              /\ rowData.solar_input_watts > rowData.household_power_demand_watts
              /\ Lt(bp, Pct(100))
      THEN "Charging"
      ELSE IF rowData.grid_status = "normal" /\ Lt(bp, Pct(100)) THEN "Charging"
      ELSE IF GridDegraded(rowData.grid_status) /\ Gt(bp, Pct(28)) THEN "Discharging"
      ELSE "Idle"

\* mutant: a full battery is still charged (<= 100 instead of < 100)
battery_actionOvercharge(rowData, ps) ==
  LET bp == ToNumber(battery_percent(rowData))
  IN  IF ps = "Battery" \/ ps = "Solar+Battery" THEN "Discharging"
      ELSE IF /\ rowData.is_daytime
              /\ rowData.solar_input_watts > rowData.household_power_demand_watts
              /\ ~Gt(bp, Pct(100)) /\ bp # NaN
      THEN "Charging"
      ELSE IF rowData.grid_status = "normal" /\ ~Gt(bp, Pct(100)) /\ bp # NaN THEN "Charging"
      ELSE IF GridDegraded(rowData.grid_status) /\ Gt(bp, Pct(28)) THEN "Discharging"
      ELSE "Idle"

\* 2. battery_action, server.js:137-173
battery_action(rowData, ps) ==
  LET bp == ToNumber(battery_percent(rowData))
  IN  IF ps = "Battery" \/ ps = "Solar+Battery" THEN "Discharging"
      ELSE IF /\ rowData.is_daytime
              /\ rowData.solar_input_watts > rowData.household_power_demand_watts
              /\ Lt(bp, Pct(100))
      THEN "Charging"
      ELSE IF rowData.grid_status = "normal" /\ Lt(bp, Pct(100)) THEN "Charging"
      ELSE IF GridDegraded(rowData.grid_status) /\ Gt(bp, Pct(28)) THEN "Discharging"
      ELSE "Idle"

\* batteryDischargeCycles after server.js:141-148
dischargeCyclesAfter(ps, cycles, last) ==
  IF (ps = "Battery" \/ ps = "Solar+Battery") /\ last # "Discharging"
  THEN cycles + 1 ELSE cycles

\* mutant: two percent per cycle instead of 0.2
battery_efficiencyCoarse(cycles) == [num |-> 1000 - cycles * 20, den |-> 10]

\* 3. battery_efficiency = 100 - cycles * 0.2, server.js:180
battery_efficiency(cycles) == [num |-> 1000 - cycles * 2, den |-> 10]

\* watts * (20 / 3600) / 1000, server.js:184-185
Kwh(watts) == [num |-> watts * 20, den |-> 3600 * 1000]

KwhMinus(a, b) == [num |-> a.num - b.num, den |-> a.den]

\* mutant: with two sources the second one is charged the whole demand
contributionsWhole(rowData, ps) ==
  LET totalDemandKwh == Kwh(rowData.household_power_demand_watts)
      solarKwh == Kwh(rowData.solar_input_watts)
  IN  CASE ps = "Solar" ->
             [solar |-> totalDemandKwh, grid |-> Kwh(0), battery |-> Kwh(0)]
        [] ps = "Grid" ->
             [solar |-> Kwh(0), grid |-> totalDemandKwh, battery |-> Kwh(0)]
        [] ps = "Solar+Grid" ->
             [solar |-> solarKwh, grid |-> totalDemandKwh, battery |-> Kwh(0)]
        [] ps = "Solar+Battery" ->
             [solar |-> solarKwh, grid |-> Kwh(0), battery |-> totalDemandKwh]
        [] ps = "Battery" ->
             [solar |-> Kwh(0), grid |-> Kwh(0), battery |-> totalDemandKwh]
        [] OTHER ->
             [solar |-> Kwh(0), grid |-> Kwh(0), battery |-> Kwh(0)]

\* mutant: with two sources the remainder is taken the wrong way round
contributionsReversed(rowData, ps) ==
  LET totalDemandKwh == Kwh(rowData.household_power_demand_watts)
      solarKwh == Kwh(rowData.solar_input_watts)
  IN  CASE ps = "Solar" ->
             [solar |-> totalDemandKwh, grid |-> Kwh(0), battery |-> Kwh(0)]
        [] ps = "Grid" ->
             [solar |-> Kwh(0), grid |-> totalDemandKwh, battery |-> Kwh(0)]
        [] ps = "Solar+Grid" ->
             [solar |-> solarKwh, grid |-> KwhMinus(solarKwh, totalDemandKwh),
              battery |-> Kwh(0)]
        [] ps = "Solar+Battery" ->
             [solar |-> solarKwh, grid |-> Kwh(0),
              battery |-> KwhMinus(solarKwh, totalDemandKwh)]
        [] ps = "Battery" ->
             [solar |-> Kwh(0), grid |-> Kwh(0), battery |-> totalDemandKwh]
        [] OTHER ->
             [solar |-> Kwh(0), grid |-> Kwh(0), battery |-> Kwh(0)]

\* 4. the contributions, server.js:187-209
contributions(rowData, ps) ==
  LET totalDemandKwh == Kwh(rowData.household_power_demand_watts)
      solarKwh == Kwh(rowData.solar_input_watts)
  IN  CASE ps = "Solar" ->
             [solar |-> totalDemandKwh, grid |-> Kwh(0), battery |-> Kwh(0)]
        [] ps = "Grid" ->
             [solar |-> Kwh(0), grid |-> totalDemandKwh, battery |-> Kwh(0)]
        [] ps = "Solar+Grid" ->
             [solar |-> solarKwh, grid |-> KwhMinus(totalDemandKwh, solarKwh),
              battery |-> Kwh(0)]
        [] ps = "Solar+Battery" ->
             [solar |-> solarKwh, grid |-> Kwh(0),
              battery |-> KwhMinus(totalDemandKwh, solarKwh)]
        [] ps = "Battery" ->
             [solar |-> Kwh(0), grid |-> Kwh(0), battery |-> totalDemandKwh]
        [] OTHER ->
             [solar |-> Kwh(0), grid |-> Kwh(0), battery |-> Kwh(0)]

\* mutant: the division is not guarded by the test of the load
estimated_battery_backup_timeUnguarded(rowData) ==
  LET bp == ToNumber(battery_percent(rowData))
      demand == rowData.household_power_demand_watts
  IN  IF bp = NaN THEN [num |-> NaN, den |-> 1]
      ELSE [num |-> bp * BATTERY_CAPACITY_KWH * 1000, den |-> 100 * 100 * demand]

\* 5. estimated_battery_backup_time, server.js:211-218:
\* ((battery_percent / 100) * BATTERY_CAPACITY_KWH) / (demand / 1000)
estimated_battery_backup_time(rowData) ==
  LET bp == ToNumber(battery_percent(rowData))
      demand == rowData.household_power_demand_watts
  IN  IF demand > 0
      THEN IF bp = NaN THEN [num |-> NaN, den |-> 1]
           ELSE [num |-> bp * BATTERY_CAPACITY_KWH * 1000, den |-> 100 * 100 * demand]
      ELSE [num |-> 0, den |-> 1]

\* the whole function: the row it returns and the globals it leaves behind
processRowData(rowData, cycles, last) ==
  LET ps == power_source(rowData)
      alerts == sourceAlerts(rowData) \o batteryAlerts(rowData)
      action == battery_action(rowData, ps)
      cyclesAfter == dischargeCyclesAfter(ps, cycles, last)
      contrib == contributions(rowData, ps)
  IN  [data |->
         Spread(rowData,
           [power_source |-> ps,
            battery_action |-> action,
            battery_efficiency |-> battery_efficiency(cyclesAfter),
            solar_contribution |-> contrib.solar,
            grid_contribution |-> contrib.grid,
            battery_contribution |-> contrib.battery,
            total_consumption_kwh |-> Kwh(rowData.household_power_demand_watts),
            estimated_battery_backup_time |-> estimated_battery_backup_time(rowData),
            alerts |-> Join(alerts),
            discharge_cycles |-> cyclesAfter]),
       alertList |-> alerts,
       batteryDischargeCycles |-> cyclesAfter,
       lastBatteryAction |-> action]

----------------------------------------------------------------------------
(* The spreadsheet on disk *)

\* A field whose value is undefined is not written: neither json_to_sheet
\* (server.js:258) nor res.json (server.js:329) keeps it.  power_source is the
\* only field processRowData can leave undefined.
DropUndefined(row) ==
  IF "power_source" \in DOMAIN row /\ row.power_source = Undefined
  THEN [k \in DOMAIN row \ {"power_source"} |-> row[k]]
  ELSE row

\* loadExcelData, server.js:22-34
loadExcelData(filePath) == files[filePath].rows

\* appendProcessedData, server.js:239-267: the sheet it writes, read while
\* currentRowIndex still has the value index.  Array indices are 0-based,
\* sequences 1-based.
appendProcessedData(data, processedData, index) ==
  [i \in 1..Len(data) |->
     IF i - 1 = index - 1
     THEN DropUndefined(Spread(data[i], processedData))
     ELSE data[i]]

----------------------------------------------------------------------------
(* Uploaded datasets *)

Stamp(i) == "T" \o ToString(i)

\* the rows of the replayed datasets: 1000 W of solar against 1000 W of demand
\* at half charge, by day or by night, with and without the grid
SessionRow(ts, day, grid) == RawRow(ts, day, 1000, grid, 1000, FALSE, NumCell(Pct(50)))

SessionKinds == {<<FALSE, "normal">>, <<FALSE, "power off">>, <<TRUE, "power off">>}

\* the datasets uploaded as name: every dataset of at most MaxLen session rows
\* as a.xlsx; as b.xlsx the night-time datasets served by the grid, one of
\* each length
Datasets(name) ==
  IF name = "a.xlsx"
  THEN UNION {{[i \in 1..n |-> SessionRow(Stamp(i), k[i][1], k[i][2])] :
                 k \in [1..n -> SessionKinds]} : n \in 0..MaxLen}
  ELSE {[i \in 1..n |-> SessionRow(Stamp(i), FALSE, "normal")] : n \in 0..MaxLen}

NoUpload == [file |-> "none", data |-> <<>>]

----------------------------------------------------------------------------
(* Request handlers *)

\* fs.existsSync
Exists(filePath) == filePath \in FileNames /\ files[filePath].exists

History == <<uploaded, produced, calls, strayed, exported>>
Globals == <<currentRowIndex, batteryDischargeCycles, lastBatteryAction>>

\* mutant: the upload resets the cursor but not the cycle counter
UploadsKeepingCycles(name, dataset) ==
  /\ files' = [files EXCEPT ![name] = File(dataset)]
  /\ currentRowIndex' = 0
  /\ UNCHANGED <<batteryDischargeCycles, lastBatteryAction>>
  /\ res' = [route |-> "uploads", req |-> name, status |-> 200,
             body |-> [message |-> "File uploaded successfully", filePath |-> name]]
  /\ uploaded' = [file |-> name, data |-> dataset]
  /\ produced' = <<>>
  /\ calls' = 0
  /\ strayed' = FALSE
  /\ exported' = TRUE

\* POST /api/uploads with a file that file.mv stores, server.js:270-303
Uploads(name, dataset) ==
  /\ files' = [files EXCEPT ![name] = File(dataset)]
  /\ currentRowIndex' = 0
  /\ batteryDischargeCycles' = 0
  /\ UNCHANGED lastBatteryAction
  /\ res' = [route |-> "uploads", req |-> name, status |-> 200,
             body |-> [message |-> "File uploaded successfully", filePath |-> name]]
  /\ uploaded' = [file |-> name, data |-> dataset]
  /\ produced' = <<>>
  /\ calls' = 0
  /\ strayed' = FALSE
  /\ exported' = TRUE

\* mutant: the counters are reset before the request is validated and the
\* file is moved
UploadsRejectedResetting(status) ==
  /\ res' = [route |-> "uploads", req |-> "", status |-> status, body |-> [text |-> "rejected"]]
  /\ currentRowIndex' = 0
  /\ batteryDischargeCycles' = 0
  /\ UNCHANGED <<files, lastBatteryAction, History>>

\* POST /api/uploads without a file (400, server.js:275-278) or with a file
\* that file.mv fails to store (500, server.js:290-292)
UploadsRejected(status) ==
  /\ res' = [route |-> "uploads", req |-> "", status |-> status, body |-> [text |-> "rejected"]]
  /\ UNCHANGED <<files, Globals, History>>

\* mutant: the test stops one row early
ExhaustedEarly(index, data) == index >= Len(data) - 1

\* the end-of-data test, server.js:315
Exhausted(index, data) == index >= Len(data)

\* mutant: the cursor is incremented before the end-of-data answer
DataNextDoneCounting(filePath) ==
  /\ res' = [route |-> "next", req |-> filePath, status |-> 200, body |-> [done |-> TRUE]]
  /\ currentRowIndex' = currentRowIndex + 1
  /\ UNCHANGED <<files, batteryDischargeCycles, lastBatteryAction, produced, exported>>

\* GET /api/data/next at the end of the data, server.js:315-317
DataNextDone(filePath) ==
  /\ res' = [route |-> "next", req |-> filePath, status |-> 200, body |-> [done |-> TRUE]]
  /\ UNCHANGED <<files, Globals, produced, exported>>

\* mutant: a lost update, as if two requests had read the cursor before either
\* wrote it back: the row is classified and the cursor stays where it was
DataNextRowLostUpdate(filePath, data) ==
  LET rawRow == data[currentRowIndex + 1]
      out == processRowData(rawRow, batteryDischargeCycles, lastBatteryAction)
      processedRow == out.data
  IN  /\ batteryDischargeCycles' = out.batteryDischargeCycles
      /\ lastBatteryAction' = out.lastBatteryAction
      /\ files' = [files EXCEPT ![filePath] =
                     File(appendProcessedData(data, processedRow, currentRowIndex))]
      /\ UNCHANGED currentRowIndex
      /\ res' = [route |-> "next", req |-> filePath, status |-> 200,
                 body |-> [done |-> FALSE, data |-> DropUndefined(processedRow)]]
      /\ produced' = Append(produced, [data |-> processedRow, alertList |-> out.alertList])
      /\ exported' = FALSE

\* GET /api/data/next on the row under the cursor, server.js:319-332
DataNextRow(filePath, data) ==
  LET rawRow == data[currentRowIndex + 1]
      out == processRowData(rawRow, batteryDischargeCycles, lastBatteryAction)
      processedRow == out.data
  IN  /\ batteryDischargeCycles' = out.batteryDischargeCycles
      /\ lastBatteryAction' = out.lastBatteryAction
      /\ files' = [files EXCEPT ![filePath] =
                     File(appendProcessedData(data, processedRow, currentRowIndex))]
      /\ currentRowIndex' = currentRowIndex + 1
      /\ res' = [route |-> "next", req |-> filePath, status |-> 200,
                 body |-> [done |-> FALSE, data |-> DropUndefined(processedRow)]]
      /\ produced' = Append(produced, [data |-> processedRow, alertList |-> out.alertList])
      /\ exported' = FALSE

\* GET /api/data/next, server.js:305-333
DataNext(filePath) ==
  IF ~Exists(filePath)
  THEN /\ res' = [route |-> "next", req |-> filePath, status |-> 404,
                  body |-> [text |-> "File not found"]]
       /\ UNCHANGED <<files, Globals, History>>
  ELSE /\ filePath = uploaded.file => calls < MaxCalls
       /\ calls' = IF filePath = uploaded.file THEN calls + 1 ELSE calls
       /\ strayed' = (strayed \/ filePath # uploaded.file)
       /\ UNCHANGED uploaded
       /\ IF Exhausted(currentRowIndex, loadExcelData(filePath))
          THEN DataNextDone(filePath)
          ELSE DataNextRow(filePath, loadExcelData(filePath))

\* Math.min, server.js:367
Min(a, b) == IF a < b THEN a ELSE b

\* mutant: the summary clamps the cursor itself to the length of the file it
\* is asked about
DataSummaryClamping(filePath) ==
  /\ IF ~Exists(filePath)
     THEN /\ res' = [route |-> "summary", req |-> filePath, status |-> 404,
                     body |-> [text |-> "File not found"]]
          /\ UNCHANGED currentRowIndex
     ELSE /\ currentRowIndex' = Min(currentRowIndex, Len(loadExcelData(filePath)))
          /\ res' = [route |-> "summary", req |-> filePath, status |-> 200,
                     body |-> [total_rows |-> Len(loadExcelData(filePath)),
                               current_row |-> Min(currentRowIndex, Len(loadExcelData(filePath))),
                               battery_discharge_cycles |-> batteryDischargeCycles]]
  /\ UNCHANGED <<files, batteryDischargeCycles, lastBatteryAction, History>>

\* GET /api/data/summary, server.js:355-373
DataSummary(filePath) ==
  /\ IF ~Exists(filePath)
     THEN res' = [route |-> "summary", req |-> filePath, status |-> 404, body |-> [text |-> "File not found"]]
     ELSE res' = [route |-> "summary", req |-> filePath, status |-> 200,
                  body |-> [total_rows |-> Len(loadExcelData(filePath)),
                            current_row |-> Min(currentRowIndex, Len(loadExcelData(filePath))),
                            battery_discharge_cycles |-> batteryDischargeCycles]]
  /\ UNCHANGED <<files, Globals, History>>

\* GET /api/download, server.js:336-353
Download(filePath) ==
  /\ IF ~Exists(filePath)
     THEN res' = [route |-> "download", req |-> filePath, status |-> 404, body |-> [text |-> "File not found"]]
     ELSE res' = [route |-> "download", req |-> filePath, status |-> 200, body |-> [sheet |-> files[filePath].rows]]
  /\ exported' = (exported \/ (Exists(filePath) /\ filePath = uploaded.file /\ ~strayed))
  /\ UNCHANGED <<files, Globals, uploaded, produced, calls, strayed>>

----------------------------------------------------------------------------
(* Specifications *)

NoResponse == [route |-> "none", req |-> "", status |-> 0, body |-> [text |-> ""]]

\* App.jsx:41-51 (useState / useRef initial values); interval is
\* intervalRef.current being set; stopped records what ended the polling last
NoClient ==
  [filePath |-> "", isProcessing |-> FALSE, interval |-> FALSE,
   processingSpeed |-> 20000, historicalData |-> <<>>, stopped |-> "none"]

NoNet == [requests |-> 0, responses |-> <<>>]

\* the server after start-up (server.js:17-19) with an empty uploads directory
Init ==
  /\ files = [f \in FileNames |-> NoFile]
  /\ currentRowIndex = 0
  /\ batteryDischargeCycles = 0
  /\ lastBatteryAction = Null
  /\ res = NoResponse
  /\ uploaded = NoUpload
  /\ produced = <<>>
  /\ calls = 0
  /\ strayed = FALSE
  /\ exported = TRUE
  /\ client = NoClient
  /\ net = NoNet

\* requests sent straight to the server, no dashboard involved
UploadsStep ==
  /\ \E name \in FileNames : \E dataset \in Datasets(name) : Uploads(name, dataset)
  /\ UNCHANGED <<client, net>>
UploadsRejectedStep ==
  /\ \E status \in {400, 500} : UploadsRejected(status)
  /\ UNCHANGED <<client, net>>
DataNextStep ==
  /\ \E filePath \in FileNames : DataNext(filePath)
  /\ UNCHANGED <<client, net>>
DataSummaryStep ==
  /\ \E filePath \in FileNames : DataSummary(filePath)
  /\ UNCHANGED <<client, net>>
DownloadStep ==
  /\ \E filePath \in FileNames : Download(filePath)
  /\ UNCHANGED <<client, net>>

Next ==
  \/ UploadsStep
  \/ UploadsRejectedStep
  \/ DataNextStep
  \/ DataSummaryStep
  \/ DownloadStep

Spec == Init /\ [][Next]_vars

\* The classifier on every row of its input domain: the server right after the
\* upload of a one-row dataset, lastBatteryAction being whatever the session
\* before that upload left behind.
BatteryActions == {"Charging", "Discharging", "Idle"}

InitRow ==
  /\ \E row \in RowDomain(Stamp(1)) :
       /\ files = [f \in FileNames |-> IF f = "a.xlsx" THEN File(<<row>>) ELSE NoFile]
       /\ uploaded = [file |-> "a.xlsx", data |-> <<row>>]
  /\ currentRowIndex = 0
  /\ batteryDischargeCycles = 0
  /\ lastBatteryAction \in BatteryActions \cup {Null}
  /\ res = NoResponse
  /\ produced = <<>>
  /\ calls = 0
  /\ strayed = FALSE
  /\ exported = TRUE
  /\ client = NoClient
  /\ net = NoNet

NextRow == DataNext("a.xlsx") /\ UNCHANGED <<client, net>>

SpecRow == InitRow /\ [][NextRow]_vars

----------------------------------------------------------------------------
(* The dashboard driving a session, src/client/src/App.jsx *)

\* the buttons "5 seconds", "20 seconds", "1 minute", App.jsx:353-374
ProcessingSpeeds == {5000, 20000, 60000}

InFlight == net.requests + Len(net.responses)

Server == <<files, Globals, res, History>>

\* mutant: the flag is cleared and the interval timer is left running
stopProcessingKeepingInterval(c) == [c EXCEPT !.isProcessing = FALSE]

\* App.jsx:107-113
stopProcessing(c) == [c EXCEPT !.interval = FALSE, !.isProcessing = FALSE]

\* App.jsx:91-104, the state it leaves: an interval there already is cleared
\* and replaced.  The request of line 102 is sent by StartClick.
startProcessing(c) ==
  [c EXCEPT !.isProcessing = TRUE, !.interval = TRUE, !.stopped = "none"]

\* App.jsx:116-126 with isProcessing false: the three buttons are disabled
\* while isProcessing (App.jsx:355-372), so the restart of lines 118-125 is
\* never run from the page
changeProcessingSpeed(c, speed) == [c EXCEPT !.processingSpeed = speed]

\* App.jsx:137-170: the continuation of fetchNextRow on the response body
fetchNextRowThen(c, data) ==
  IF data.done
  THEN [stopProcessing(c) EXCEPT !.stopped = "done"]
  ELSE [c EXCEPT !.historicalData = Append(@, data.data)]

\* Start, enabled while not processing (App.jsx:323-328)
StartClick ==
  /\ ~client.isProcessing /\ client.filePath # ""
  /\ InFlight < MaxInFlight /\ calls < MaxCalls
  /\ client' = startProcessing(client)
  /\ net' = [net EXCEPT !.requests = @ + 1]
  /\ UNCHANGED Server

\* Stop, enabled while processing (App.jsx:330-335)
StopClick ==
  /\ client.isProcessing
  /\ client' = [stopProcessing(client) EXCEPT !.stopped = "operator"]
  /\ UNCHANGED <<net, Server>>

\* a speed button, enabled while not processing (App.jsx:353-374)
SpeedClick ==
  /\ ~client.isProcessing
  /\ \E speed \in ProcessingSpeeds \ {client.processingSpeed} :
       client' = changeProcessingSpeed(client, speed)
  /\ UNCHANGED <<net, Server>>

\* the interval of App.jsx:103 fires: fetchNextRow sends its request (131-135)
IntervalTick ==
  /\ client.interval
  /\ InFlight < MaxInFlight
  /\ net' = [net EXCEPT !.requests = @ + 1]
  /\ UNCHANGED <<client, Server>>

\* the server handles one of the requests in flight
ServerAnswers ==
  /\ net.requests > 0
  /\ DataNext(client.filePath)
  /\ net' = [requests |-> net.requests - 1, responses |-> Append(net.responses, res'.body)]
  /\ UNCHANGED client

\* a response arrives, in whatever order the connections deliver
ResponseArrives ==
  \E i \in 1..Len(net.responses) :
    /\ client' = fetchNextRowThen(client, net.responses[i])
    /\ net' = [net EXCEPT !.responses =
                  SubSeq(@, 1, i - 1) \o SubSeq(@, i + 1, Len(@))]
    /\ UNCHANGED Server

\* the page after the upload of a dataset (handleUpload, App.jsx:59-88), on a
\* server started for it
InitClient ==
  /\ \E dataset \in Datasets("b.xlsx") :
       /\ files = [f \in FileNames |-> IF f = "b.xlsx" THEN File(dataset) ELSE NoFile]
       /\ uploaded = [file |-> "b.xlsx", data |-> dataset]
  /\ currentRowIndex = 0
  /\ batteryDischargeCycles = 0
  /\ lastBatteryAction = Null
  /\ res = [route |-> "uploads", req |-> "b.xlsx", status |-> 200,
            body |-> [message |-> "File uploaded successfully", filePath |-> "b.xlsx"]]
  /\ produced = <<>>
  /\ calls = 0
  /\ strayed = FALSE
  /\ exported = TRUE
  /\ client = [NoClient EXCEPT !.filePath = "b.xlsx"]
  /\ net = NoNet

NextClient ==
  \/ StartClick
  \/ StopClick
  \/ SpeedClick
  \/ IntervalTick
  \/ ServerAnswers
  \/ ResponseArrives

\* An active interval keeps firing, the server answers every request and
\* every response arrives; the operator's clicks are under no obligation.
SpecClient ==
  /\ InitClient /\ [][NextClient]_vars
  /\ WF_vars(IntervalTick) /\ WF_vars(ServerAnswers) /\ WF_vars(ResponseArrives)

----------------------------------------------------------------------------
(* Properties *)

InSession == uploaded.file # "none"

\* a session whose /api/data/next requests all named the uploaded file
OwnSession == InSession /\ ~strayed

ActionAt(i) == produced[i].data.battery_action

\* the rows of the session at which a maximal run of Discharging rows starts
RunStarts ==
  {i \in 1..Len(produced) :
     ActionAt(i) = "Discharging" /\ (i = 1 \/ ActionAt(i - 1) # "Discharging")}

\* C1: in any session, after N advances batteryDischargeCycles is the number
\* of maximal runs of consecutive Discharging rows that start within those N
\* rows.
C1_CyclesCountDischargeRuns ==
  InSession => batteryDischargeCycles = Cardinality(RunStarts)

\* C2: right after a successful upload the whole session state is initial:
\* currentRowIndex = 0, batteryDischargeCycles = 0 and lastBatteryAction is
\* none (null).
C2_UploadResetsWholeState ==
  (res.route = "uploads" /\ res.status = 200) =>
    /\ currentRowIndex = 0
    /\ batteryDischargeCycles = 0
    /\ lastBatteryAction = Null

\* C3: after K /api/data/next requests following the upload of a dataset of
\* L rows, currentRowIndex is min(K, L) and is the number of annotated rows
\* produced so far, and the summary reports current_row = min(K, L) and
\* total_rows = L.
C3_CursorIsMinOfCallsAndLength ==
  OwnSession =>
    LET L == Len(uploaded.data)
        m == IF calls <= L THEN calls ELSE L
    IN  /\ currentRowIndex = m
        /\ currentRowIndex = Len(produced)
        /\ (res.route = "summary" /\ res.req = uploaded.file) =>
             /\ res.status = 200
             /\ res.body.current_row = m
             /\ res.body.total_rows = L

\* one request past the end of a two-row dataset, then a summary
C3_Witness ==
  /\ OwnSession
  /\ Len(uploaded.data) = 2
  /\ calls = 3
  /\ res.route = "summary" /\ res.req = uploaded.file
  /\ res.body.current_row = 2

\* C4: once the cursor has reached the length of a file, a further
\* /api/data/next on it reports done and changes neither the globals nor the
\* files; the file stays exhausted under every request but a successful
\* upload; and the first /api/data/next after the upload of a non-empty
\* dataset returns its row 0.
C4_ExhaustedAdvanceIsNoOp ==
  [][/\ \A f \in FileNames :
          (/\ Exists(f) /\ currentRowIndex >= Len(files[f].rows)
           /\ res'.route = "next" /\ res'.req = f)
            => /\ res'.status = 200
               /\ res'.body = [done |-> TRUE]
               /\ UNCHANGED <<files, Globals, produced>>
     /\ \A f \in FileNames :
          (/\ Exists(f) /\ currentRowIndex >= Len(files[f].rows)
           /\ ~(res'.route = "uploads" /\ res'.status = 200))
            => files'[f].exists /\ currentRowIndex' >= Len(files'[f].rows)
     /\ (/\ res.route = "uploads" /\ res.status = 200
         /\ uploaded.data # <<>>
         /\ res'.route = "next" /\ res'.req = uploaded.file)
          => /\ res'.body.done = FALSE
             /\ \A k \in RawFields : res'.body.data[k] = uploaded.data[1][k]
             /\ Len(produced') = 1
    ]_vars

\* two requests past the end of a dataset, both answered done
C4_Witness ==
  /\ OwnSession
  /\ Len(uploaded.data) >= 1
  /\ calls >= Len(uploaded.data) + 2
  /\ res.route = "next" /\ res.status = 200 /\ res.body = [done |-> TRUE]
  /\ currentRowIndex = Len(uploaded.data)

\* the rows the classifier has returned in this session
Produced == {produced[i] : i \in 1..Len(produced)}

\* C5: a row whose grid_status is power_off or voltage_fluctuation gets, by
\* day, Solar when solar_input_watts >= demand and Solar+Battery otherwise,
\* and Battery at night.
C5_DegradedGridPowerSource ==
  \A p \in Produced :
    LET r == p.data
    IN  r.grid_status \in {"power_off", "voltage_fluctuation"} =>
          r.power_source =
            IF r.is_daytime
            THEN IF r.solar_input_watts >= r.household_power_demand_watts
                 THEN "Solar" ELSE "Solar+Battery"
            ELSE "Battery"

LowBatteryText(cell) == "Battery Low: " \o CellToString(cell) \o "%"

\* C6: a row with grid_status = normal gets, by day, Solar when
\* solar_input_watts >= demand and Solar+Grid otherwise, and Grid at night;
\* its alerts hold no power-source and no heavy-appliance alert (at most the
\* low-battery alert).
C6_NormalGridPowerSource ==
  \A p \in Produced :
    LET r == p.data
    IN  r.grid_status = "normal" =>
          /\ r.power_source =
               IF r.is_daytime
               THEN IF r.solar_input_watts >= r.household_power_demand_watts
                    THEN "Solar" ELSE "Solar+Grid"
               ELSE "Grid"
          /\ p.alertList \in {<<>>, <<LowBatteryText(r.battery_percent)>>}
          /\ r.alerts \in {"", LowBatteryText(r.battery_percent)}

\* a day row with a normal grid, solar equal to the demand and a heavy appliance
C6_Witness ==
  \E p \in Produced :
    /\ p.data.grid_status = "normal" /\ p.data.is_daytime
    /\ p.data.heavy_appliance_active
    /\ p.data.household_power_demand_watts > 0
    /\ p.data.solar_input_watts = p.data.household_power_demand_watts
    /\ p.data.power_source = "Solar"
    /\ p.data.alerts = ""

\* C7: every annotated row whose power_source is Battery or Solar+Battery has
\* battery_action = Discharging.
C7_BatterySourceDischarges ==
  \A p \in Produced :
    p.data.power_source \in {"Battery", "Solar+Battery"} =>
      p.data.battery_action = "Discharging"

\* a Solar+Battery row at a low battery level
C7_Witness ==
  \E p \in Produced :
    /\ p.data.power_source = "Solar+Battery"
    /\ p.data.battery_action = "Discharging"
    /\ p.data.battery_percent = NumCell(Pct(20))

\* C8: after K advances on a dataset of L rows the exported sheet has L rows;
\* row i < K carries the annotations derived from raw row i, and every row
\* i >= K is the unannotated input row.
C8_ExportCarriesOwnAnnotations ==
  (OwnSession /\ res.route = "download" /\ res.req = uploaded.file) =>
    /\ res.status = 200
    /\ Len(res.body.sheet) = Len(uploaded.data)
    /\ \A i \in 1..Len(uploaded.data) :
         res.body.sheet[i] = IF i <= currentRowIndex
                             THEN DropUndefined(produced[i].data)
                             ELSE uploaded.data[i]

\* C9: every row of the stored dataset keeps the raw field values the input
\* row at its position had at load time.
C9_RawFieldsImmutable ==
  OwnSession =>
    /\ Len(files[uploaded.file].rows) = Len(uploaded.data)
    /\ \A i \in 1..Len(uploaded.data) : \A k \in RawFields :
         files[uploaded.file].rows[i][k] = uploaded.data[i][k]

\* the percentage the normalization rule assigns to a battery_percent value
Normalized(v) == IF v = NaN THEN NaN ELSE IF v < Pct(1) THEN v * 100 ELSE v

\* C10: the low-battery alert, the battery-action thresholds and the backup
\* time all use the normalized battery percentage (a value below 1, number
\* or string, multiplied by 100): the alert is raised iff the normalized
\* value is below 28 and reports the normalized level.
C10_NormalizedBatteryPercentUsed ==
  \A p \in Produced :
    LET r == p.data
        n == Normalized(ToNumber(r.battery_percent))
        demand == r.household_power_demand_watts
        normalizedRow == [r EXCEPT !.battery_percent = NumCell(n)]
    IN  /\ Lt(n, Pct(28)) <=>
             \E j \in 1..Len(p.alertList) :
               p.alertList[j] = "Battery Low: " \o NumberToString(n) \o "%"
        /\ r.battery_action = battery_action(normalizedRow, r.power_source)
        /\ (demand > 0 /\ n # NaN) =>
             r.estimated_battery_backup_time =
               [num |-> n * BATTERY_CAPACITY_KWH * 1000, den |-> 100 * 100 * demand]

\* C11: within a session each annotated row's battery_efficiency is
\* 100 - 0.2 x its discharge_cycles, the row's discharge_cycles is the
\* session counter after the row's battery-action step, and the efficiency
\* does not increase from one advanced row to the next.
C11_EfficiencyFollowsCycles ==
  InSession =>
    /\ \A i \in 1..Len(produced) :
         produced[i].data.battery_efficiency =
           [num |-> 100 * 10 - 2 * produced[i].data.discharge_cycles, den |-> 10]
    /\ produced # <<>> =>
         produced[Len(produced)].data.discharge_cycles = batteryDischargeCycles
    /\ \A i \in 1..(Len(produced) - 1) :
         /\ produced[i + 1].data.discharge_cycles >= produced[i].data.discharge_cycles
         /\ produced[i + 1].data.battery_efficiency.num
              <= produced[i].data.battery_efficiency.num

\* a session whose second row starts the first discharge cycle: 100, then 99.8
C11_Witness ==
  /\ Len(produced) = 2
  /\ produced[1].data.battery_efficiency = [num |-> 1000, den |-> 10]
  /\ produced[2].data.battery_efficiency = [num |-> 998, den |-> 10]
  /\ batteryDischargeCycles = 1

\* C12: the upload of a dataset with zero rows fails (EmptyDatasetError): no
\* successful upload leaves an empty dataset loaded.
C12_EmptyDatasetRejected ==
  (res.route = "uploads" /\ res.status = 200) => uploaded.data # <<>>

\* C13: a rejected upload (no file in the request, or file.mv fails) leaves
\* currentRowIndex, batteryDischargeCycles and lastBatteryAction as they were.
C13_RejectedUploadKeepsState ==
  [][(res'.route = "uploads" /\ res'.status # 200) => UNCHANGED Globals]_vars

\* an upload rejected in the middle of a session
C13_Witness ==
  /\ res.route = "uploads" /\ res.status = 500
  /\ currentRowIndex = 2
  /\ batteryDischargeCycles = 1
  /\ lastBatteryAction = "Discharging"

\* C14: a row whose time-of-day / grid-status combination no rule covers
\* is reported as an UnclassifiedStateError: /api/data/next never yields an
\* annotated row whose power_source is left undefined.
C14_NoUndefinedPowerSource ==
  /\ \A p \in Produced : p.data.power_source # Undefined
  /\ (res.route = "next" /\ res.status = 200 /\ res.body # [done |-> TRUE]) =>
       "power_source" \in DOMAIN res.body.data

\* C15: a row with a malformed (non-numeric) numeric field does not stop the
\* session, and /api/data/next reports a DataValidationError for it: the
\* cursor moves past the row and the response carries an error.
C15_MalformedFieldReported ==
  (/\ res.route = "next" /\ res.status = 200 /\ res.body # [done |-> TRUE]
   /\ ToNumber(res.body.data.battery_percent) = NaN) =>
     /\ currentRowIndex = Len(produced)
     /\ "error" \in DOMAIN res.body

\* C16: /api/data/summary and /api/download are pure reads: after either
\* request currentRowIndex, batteryDischargeCycles, lastBatteryAction and the
\* stored files are what they were before, in every state of the session.
C16_SummaryAndDownloadArePureReads ==
  [][res'.route \in {"summary", "download"} => UNCHANGED <<files, Globals>>]_vars

\* a summary in the middle of a session, answered with the state it left alone
C16_Witness ==
  /\ res.route = "summary" /\ res.status = 200
  /\ res.body.current_row = 1 /\ res.body.total_rows = 2
  /\ currentRowIndex = 1
  /\ lastBatteryAction = "Discharging"

\* C17: an upload never silently destroys advanced rows that were not
\* exported: as the request carries no discard signal, an upload that
\* arrives while the rows produced in the session are not yet downloaded
\* leaves the file that holds them as it is.
C17_NoSilentLossOfHistory ==
  [][(/\ OwnSession /\ produced # <<>> /\ ~exported
      /\ res'.route = "uploads" /\ res'.status = 200 /\ res'.req = uploaded.file)
       => files'[uploaded.file] = files[uploaded.file]]_vars

\* C18: rule 4d of the battery-action classification is unreachable: a row
\* is Discharging only when its power_source is Battery or Solar+Battery.
C18_DischargingOnlyFromBatterySource ==
  \A p \in Produced :
    p.data.battery_action = "Discharging" =>
      p.data.power_source \in {"Battery", "Solar+Battery"}

\* C19: batteryDischargeCycles is 0 after an upload, and a step changes it
\* only by adding 1 in /api/data/next or by resetting it in a successful
\* upload; it never decreases within a session.
C19_CyclesStepByOne ==
  [][/\ (res'.route = "uploads" /\ res'.status = 200) => batteryDischargeCycles' = 0
     /\ batteryDischargeCycles' # batteryDischargeCycles =>
          \/ /\ res'.route = "next" /\ res'.status = 200
             /\ batteryDischargeCycles' = batteryDischargeCycles + 1
          \/ /\ res'.route = "uploads" /\ res'.status = 200
             /\ batteryDischargeCycles' = 0
    ]_vars

\* a session that counted one cycle on its first row and none on its second
C19_Witness ==
  /\ Len(produced) = 2
  /\ produced[1].data.discharge_cycles = 1
  /\ produced[2].data.discharge_cycles = 1
  /\ batteryDischargeCycles = 1

\* the sources a power_source names
SourcesOf(ps) ==
  CASE ps = "Solar" -> {"solar"}
    [] ps = "Grid" -> {"grid"}
    [] ps = "Battery" -> {"battery"}
    [] ps = "Solar+Grid" -> {"solar", "grid"}
    [] ps = "Solar+Battery" -> {"solar", "battery"}
    [] OTHER -> {}

C21_ContributionsNonNegative ==
  \A p \in Produced :
    LET r == p.data
    IN  (r.solar_input_watts >= 0 /\ r.household_power_demand_watts >= 0) =>
          /\ r.solar_contribution.num >= 0 /\ r.solar_contribution.den > 0
          /\ r.grid_contribution.num >= 0 /\ r.grid_contribution.den > 0
          /\ r.battery_contribution.num >= 0 /\ r.battery_contribution.den > 0

\* a Solar+Battery row with a positive battery remainder
C21_Witness ==
  \E p \in Produced :
    /\ p.data.power_source = "Solar+Battery"
    /\ p.data.solar_contribution.num > 0
    /\ p.data.battery_contribution.num > 0

\* C22: a row whose power_source is not Battery or Solar+Battery is Charging
\* if it is daytime with solar_input_watts > demand and battery < 100; else
\* Charging if the grid is normal and battery < 100; else Idle when rule 4d
\* (degraded grid and battery > 28) does not apply.  So no row is Charging
\* with battery >= 100.
C22_ChargingPriority ==
  \A p \in Produced :
    LET r == p.data
        bp == ToNumber(r.battery_percent)
        solarCharge == /\ r.is_daytime
                       /\ r.solar_input_watts > r.household_power_demand_watts
                       /\ Lt(bp, Pct(100))
        gridCharge == r.grid_status = "normal" /\ Lt(bp, Pct(100))
        rule4d == /\ r.grid_status \in {"power off", "voltage fluctuation",
                                       "power_off", "voltage_fluctuation"}
                  /\ Gt(bp, Pct(28))
    IN  r.power_source \notin {"Battery", "Solar+Battery"} =>
          /\ (solarCharge \/ gridCharge) => r.battery_action = "Charging"
          /\ (~solarCharge /\ ~gridCharge /\ ~rule4d) => r.battery_action = "Idle"
          /\ r.battery_action = "Charging" => Lt(bp, Pct(100))

\* a night row on a normal grid with a full battery: Idle
C22_Witness ==
  \E p \in Produced :
    /\ ~p.data.is_daytime /\ p.data.grid_status = "normal"
    /\ p.data.battery_percent = NumCell(Pct(100))
    /\ p.data.power_source = "Grid"
    /\ p.data.battery_action = "Idle"

\* C23: advance requests behave as if mutually exclusive: in a session the
\* i-th advance that returns a row classifies row i of the dataset, so no row
\* is classified twice and none is skipped; the threaded state is the one the
\* last classified row left, and a summary reports the cursor and the cycle
\* counter of one and the same moment.
C23_AdvancesAreSerialized ==
  OwnSession =>
    /\ \A i \in 1..Len(produced) :
         /\ i <= Len(uploaded.data)
         /\ produced[i].data.timestamp = uploaded.data[i].timestamp
    /\ Len(produced) > 0 =>
         /\ lastBatteryAction = produced[Len(produced)].data.battery_action
         /\ batteryDischargeCycles = produced[Len(produced)].data.discharge_cycles
    /\ (res.route = "summary" /\ res.req = uploaded.file) =>
         /\ res.body.current_row = Len(produced)
         /\ res.body.battery_discharge_cycles = batteryDischargeCycles

\* three advances in a row on a two-row dataset: both rows classified once,
\* the third answered with the end of the data
C23_Witness ==
  /\ OwnSession /\ calls = 3
  /\ Len(uploaded.data) = 2 /\ Len(produced) = 2
  /\ produced[1].data.timestamp # produced[2].data.timestamp
  /\ res.route = "next" /\ res.body.done

\* C25: the cursor belongs to the dataset a request names: after every
\* advance or summary request on an existing file, currentRowIndex counts
\* annotated rows of that file and so never exceeds that file's length, also
\* when requests name different existing files.
C25_CursorWithinNamedDataset ==
  (res.route \in {"next", "summary"} /\ res.status = 200) =>
    currentRowIndex <= Len(files[res.req].rows)

PowerSourceAlerts ==
  {"Grid power unavailable. Using solar only.",
   "Powering from battery due to grid issue.",
   "Switched to battery.",
   "Grid power unavailable. Using battery backup."}

HeavyApplianceWarnings ==
  {"Warning: Heavy appliances running on solar backup.",
   "Warning: Heavy appliances on battery backup. Consider turning off.",
   "Warning: High load on battery backup. Turn off heavy devices."}

\* the place of an alert in the order power source, heavy appliance, low battery
AlertRank(a) ==
  IF a \in PowerSourceAlerts THEN 1 ELSE IF a \in HeavyApplianceWarnings THEN 2 ELSE 3

\* C27: the alerts of a row are ordered: the power-source alert first, present
\* when the grid is degraded (power_off or voltage_fluctuation), then the
\* heavy-appliance warning, present iff the grid is degraded and
\* heavy_appliance_active, then the low-battery alert; a night row with a
\* degraded grid and a heavy appliance carries both the switched-to-battery
\* alert and the heavy-appliance warning; a row with a normal grid and a
\* battery percentage of at least 28 has no alert.
C27_AlertsOrdered ==
  \A p \in Produced :
    LET r == p.data
        al == p.alertList
        degraded == r.grid_status # "normal"
        bp == Normalized(ToNumber(r.battery_percent))
    IN  /\ \A i, j \in 1..Len(al) : i < j => AlertRank(al[i]) < AlertRank(al[j])
        /\ degraded => (al # <<>> /\ al[1] \in PowerSourceAlerts)
        /\ (\E i \in 1..Len(al) : al[i] \in HeavyApplianceWarnings)
             <=> (degraded /\ r.heavy_appliance_active)
        /\ (~r.is_daytime /\ degraded /\ r.heavy_appliance_active) =>
             /\ \E i \in 1..Len(al) : al[i] = "Switched to battery."
             /\ \E i \in 1..Len(al) : al[i] \in HeavyApplianceWarnings
        /\ (r.grid_status = "normal" /\ bp # NaN /\ bp >= Pct(28)) => al = <<>>

\* the same statement for the rows on which the faults of C5 and C10 do not
\* bear: the grid status is one the server tests for, and the battery level is
\* the value as stored
C27_AlertsOrderedOnServerValues ==
  \A p \in Produced :
    LET r == p.data
        al == p.alertList
        degraded == r.grid_status \in {"power off", "voltage fluctuation"}
        bp == ToNumber(r.battery_percent)
    IN  r.grid_status \in {"normal", "power off", "voltage fluctuation"} =>
          /\ \A i, j \in 1..Len(al) : i < j => AlertRank(al[i]) < AlertRank(al[j])
          /\ degraded => (al # <<>> /\ al[1] \in PowerSourceAlerts)
          /\ (\E i \in 1..Len(al) : al[i] \in HeavyApplianceWarnings)
               <=> (degraded /\ r.heavy_appliance_active)
          /\ (~r.is_daytime /\ degraded /\ r.heavy_appliance_active) =>
               /\ \E i \in 1..Len(al) : al[i] = "Switched to battery."
               /\ \E i \in 1..Len(al) : al[i] \in HeavyApplianceWarnings
          /\ (r.grid_status = "normal" /\ bp # NaN /\ bp >= Pct(28)) => al = <<>>

\* C28: estimated_battery_backup_time is 0 when the demand is 0 and otherwise
\* (battery_percent / 100 x 10 kWh) / (demand_watts / 1000), which is
\* battery_percent / 10 hours per kW of demand; it is >= 0 for every row with
\* battery_percent >= 0 and demand >= 0.  battery_percent is the value of the
\* row's field (in hundredths of a percent here, so the quotient is bp / demand).
C28_BackupTimeFormula ==
  \A p \in Produced :
    LET r == p.data
        bp == ToNumber(r.battery_percent)
        demand == r.household_power_demand_watts
        t == r.estimated_battery_backup_time
    IN  /\ demand = 0 => (t.num = 0 /\ t.den = 1)
        /\ (demand > 0 /\ bp # NaN) =>
             /\ t.den > 0 /\ t.den % demand = 0
             /\ t.num = bp * (t.den \div demand)
        /\ (bp # NaN /\ bp >= 0 /\ demand >= 0) => (t.num >= 0 /\ t.den > 0)

\* half a battery on a load of 2 kW: two and a half hours
C28_Witness ==
  \E p \in Produced :
    /\ p.data.battery_percent = NumCell(Pct(50))
    /\ p.data.household_power_demand_watts = 2000
    /\ LET t == p.data.estimated_battery_backup_time IN 2 * t.num = 5 * t.den

\* C30: the third night-time branch of the power-source classification (the
\* second test of grid_status = "power off") is never taken: no row carries
\* the alert "Grid power unavailable. Using battery backup." or "Warning: High
\* load on battery backup. Turn off heavy devices.".
C30_ThirdNightBranchDead ==
  \A p \in Produced :
    \A i \in 1..Len(p.alertList) :
      p.alertList[i] \notin
        {"Grid power unavailable. Using battery backup.",
         "Warning: High load on battery backup. Turn off heavy devices."}

\* a night row with the grid "power off" and a heavy appliance, the input the
\* third branch tests for: the second branch has answered it
C30_Witness ==
  \E p \in Produced :
    /\ ~p.data.is_daytime /\ p.data.grid_status = "power off"
    /\ p.data.heavy_appliance_active
    /\ p.data.battery_percent = NumCell(Pct(50))
    /\ p.alertList = <<"Switched to battery.",
                       "Warning: Heavy appliances on battery backup. Consider turning off.">>

\* C24: a driver that keeps polling a loaded dataset of L rows is eventually
\* told done, after exactly L rows, and then stops: the interval timer is
\* cleared and no /api/data/next request is sent until Start is pressed
\* again.  (Polling that is on ends: by done, unless the operator stops it.)
C24_DoneStopsTheDriver ==
  /\ [](client.stopped = "done" =>
          /\ ~client.interval /\ ~client.isProcessing
          /\ currentRowIndex = Len(uploaded.data)
          /\ Len(produced) = Len(uploaded.data))
  /\ [][(client.stopped = "done" /\ net'.requests > net.requests) =>
          (~client.isProcessing /\ client'.isProcessing)]_vars
  /\ (client.isProcessing ~> (~client.isProcessing /\ client.stopped \in {"done", "operator"}))

\* both rows of a two-row dataset shown, polling ended by done
C24_Witness ==
  /\ client.stopped = "done" /\ ~client.interval
  /\ Len(uploaded.data) = 2
  /\ Len(client.historicalData) = 2
  /\ calls = 3

\* C29: under any interleaving of ticks, Start and Stop clicks and responses,
\* historicalData is the sequence of the rows the server advanced in the
\* session, in row order, without duplicate or gap (up to the responses still
\* in flight), and while polling is off (after Stop or done, before the next
\* Start) no row is appended to it.
C29_HistoryFollowsTheServer ==
  /\ [](/\ Len(client.historicalData) <= Len(produced)
        /\ \A i \in 1..Len(client.historicalData) :
             i <= Len(produced) =>
               client.historicalData[i].timestamp = produced[i].data.timestamp)
  /\ [][~client.isProcessing => client'.historicalData = client.historicalData]_vars

\* the two halves of C29 on their own
C29_HistoryInRowOrder ==
  /\ Len(client.historicalData) <= Len(produced)
  /\ \A i \in 1..Len(client.historicalData) :
       i <= Len(produced) =>
         client.historicalData[i].timestamp = produced[i].data.timestamp

C29_NoRowWhileStopped ==
  [][~client.isProcessing => client'.historicalData = client.historicalData]_vars

====
